---------------------------- MODULE Spec2Model ----------------------------
(***************************************************************************)
(* Model of the Port Terraform provider's mapping layer:                   *)
(*   - port/entity/refreshEntityState.go: refreshEntityState and helpers   *)
(*     (wire entity -> configuration state), scorecardResourceToPortBody   *)
(*     (configuration -> wire scorecard);                                  *)
(*   - port/cli/entity.go: ReadEntity, CreateEntity, DeleteEntity.         *)
(* Go values decoded from JSON are tagged records; json.Marshal is         *)
(* computed as the text it produces.                                       *)
(***************************************************************************)
EXTENDS Integers, Sequences, FiniteSets, TLC

VARIABLES
    state,      \* the *EntityModel handed to refreshEntityState
    wire,       \* the *cli.Entity of the last refreshEntityState call
    bp,         \* the *cli.Blueprint of the last refreshEntityState call
    ret,        \* how the last refreshEntityState call ended
    relations,  \* the local `relations` built by refreshRelationsEntityState
    plan,       \* the configuration model a round trip starts from
    cliCall,    \* the last PortClient call: operation and HTTP exchange
    cliRet,     \* what that PortClient call returned
    scState,    \* the *ScorecardModel given to scorecardResourceToPortBody
    scRet       \* what scorecardResourceToPortBody returned

vars == <<state, wire, bp, ret, relations, plan, cliCall, cliRet, scState, scRet>>

entityVars == <<state, wire, bp, ret, relations>>
planVars == <<plan>>
cliVars == <<cliCall, cliRet>>
scVars == <<scState, scRet>>

---------------------------------------------------------------------------
(* Bounds of the model.                                                    *)

\* longest wire list (array property value)
MaxLen == 2
\* longest wire team list
MaxTeams == 2

---------------------------------------------------------------------------
(* Go values as json.Unmarshal leaves them in an interface{}: float64,     *)
(* string, bool, nil, map[string]interface{} and []interface{}.  One       *)
(* record shape for all of them; `o` is an object's fields as              *)
(* <<key, number>> pairs in key order, `l` the elements of a list.         *)

Num(n) == [t |-> "float64", n |-> n, s |-> "", b |-> FALSE, o |-> <<>>, l |-> <<>>]
Str(s) == [t |-> "string", n |-> 0, s |-> s, b |-> FALSE, o |-> <<>>, l |-> <<>>]
Bool(b) == [t |-> "bool", n |-> 0, s |-> "", b |-> b, o |-> <<>>, l |-> <<>>]
Null == [t |-> "nil", n |-> 0, s |-> "", b |-> FALSE, o |-> <<>>, l |-> <<>>]
Obj(o) == [t |-> "map", n |-> 0, s |-> "", b |-> FALSE, o |-> o, l |-> <<>>]
List(l) == [t |-> "slice", n |-> 0, s |-> "", b |-> FALSE, o |-> <<>>, l |-> l]

EmptyMap == <<>>

RECURSIVE JoinComma(_)
JoinComma(parts) ==
    IF Len(parts) = 0 THEN ""
    ELSE IF Len(parts) = 1 THEN parts[1]
    ELSE parts[1] \o "," \o JoinComma(Tail(parts))

Quote(s) == "\"" \o s \o "\""

\* json.Marshal of a value that is not a list
MarshalScalar(v) ==
    CASE v.t = "float64" -> ToString(v.n)
      [] v.t = "string" -> Quote(v.s)
      [] v.t = "bool" -> (IF v.b THEN "true" ELSE "false")
      [] v.t = "nil" -> "null"
      [] v.t = "map" ->
            "{" \o JoinComma([i \in 1..Len(v.o) |->
                                Quote(v.o[i][1]) \o ":" \o ToString(v.o[i][2])]) \o "}"
      [] OTHER -> "[]"

\* fmt.Sprint in place of json.Marshal: a string loses its quotes
MarshalSprint(v) == IF v.t = "string" THEN v.s ELSE MarshalScalar(v)

\* json.Marshal(&v): v marshals as the value it points to
Marshal(v) ==
    IF v.t = "slice"
    THEN "[" \o JoinComma([i \in 1..Len(v.l) |-> MarshalScalar(v.l[i])]) \o "]"
    ELSE MarshalScalar(v)

---------------------------------------------------------------------------
(* The configuration side: EntityModel and its containers.                 *)

NullString == "<null>"

\* types.MapNull(...) and the value of types.MapValueFrom(..., mapItems)
MapNull == [null |-> TRUE, elems |-> EmptyMap]
MapValueFrom(mapItems) == [null |-> FALSE, elems |-> mapItems]

NilArrayProps ==
    [nil |-> TRUE, StringItems |-> MapNull, NumberItems |-> MapNull,
     BooleanItems |-> MapNull, ObjectItems |-> MapNull]

\* &ArrayPropsModel{...} of refreshArrayEntityState
NewArrayProps == [NilArrayProps EXCEPT !.nil = FALSE]

NilProperties ==
    [nil |-> TRUE, StringProps |-> EmptyMap, NumberProps |-> EmptyMap,
     BooleanProps |-> EmptyMap, ObjectProps |-> EmptyMap, ArrayProps |-> NilArrayProps]

\* &EntityPropertiesModel{}
NewProperties == [NilProperties EXCEPT !.nil = FALSE]

NilRelations == [nil |-> TRUE, SingleRelation |-> EmptyMap, ManyRelations |-> EmptyMap]

\* &RelationModel{SingleRelation: make(...), ManyRelations: make(...)}
NewRelations == [NilRelations EXCEPT !.nil = FALSE]

\* the zero EntityModel
FreshState ==
    [ID |-> NullString, Identifier |-> NullString, Blueprint |-> NullString,
     Title |-> NullString, CreatedAt |-> NullString, CreatedBy |-> NullString,
     UpdatedAt |-> NullString, UpdatedBy |-> NullString,
     Teams |-> <<>>, Properties |-> NilProperties, Relations |-> NilRelations]

\* m[k] = v on a Go map
Put(m, k, v) == [x \in DOMAIN m \cup {k} |-> IF x = k THEN v ELSE m[x]]

---------------------------------------------------------------------------
(* time.Time.String() of a UTC time: "2006-01-02 15:04:05 +0000 UTC".      *)

Pad2(n) == IF n < 10 THEN "0" \o ToString(n) ELSE ToString(n)

\* the RFC 3339 form of the time, as t.Format(time.RFC3339) gives it
TimeStringRFC3339(t) ==
    ToString(t.year) \o "-" \o Pad2(t.month) \o "-" \o Pad2(t.day) \o "T"
    \o Pad2(t.hour) \o ":" \o Pad2(t.min) \o ":" \o Pad2(t.sec) \o "Z"

TimeString(t) ==
    ToString(t.year) \o "-" \o Pad2(t.month) \o "-" \o Pad2(t.day) \o " "
    \o Pad2(t.hour) \o ":" \o Pad2(t.min) \o ":" \o Pad2(t.sec) \o " +0000 UTC"

---------------------------------------------------------------------------
(* refreshArrayEntityState                                                 *)

\* blueprint.Schema.Properties[k].Items["type"]; a missing key reads as nil
ItemsType(blueprint, k) ==
    IF k \in DOMAIN blueprint.Schema.Properties
       /\ "type" \in DOMAIN blueprint.Schema.Properties[k].Items
    THEN blueprint.Schema.Properties[k].Items["type"]
    ELSE "<nil>"

\* the Go type an element must have for the unchecked assertion item.(T)
AssertedType(ty) ==
    CASE ty = "string" -> "string"
      [] ty = "number" -> "float64"
      [] ty = "boolean" -> "bool"
      [] OTHER -> "any"

\* a type assertion item.(T) on an element of another type panics
AssertionPanics(t, ty) ==
    /\ AssertedType(ty) # "any"
    /\ \E i \in 1..Len(t) : t[i].t # AssertedType(ty)

\* mapItems after the loop: make(map) with mapItems[k] appended once per
\* element (items: the converted elements), so k is a key only when t has
\* an element
MapItems(k, items) ==
    IF Len(items) = 0 THEN EmptyMap ELSE k :> items

\* the switch with a default case that records the list as object items
ArraySwitchDefaultObject(st, k, t, ty) ==
    LET st1 == IF st.Properties.ArrayProps.nil
               THEN [st EXCEPT !.Properties.ArrayProps = NewArrayProps]
               ELSE st
    IN  IF AssertionPanics(t, ty)
        THEN [panic |-> TRUE, state |-> st1]
        ELSE [panic |-> FALSE, state |->
                CASE ty = "string" ->
                       [st1 EXCEPT !.Properties.ArrayProps.StringItems =
                                       MapValueFrom(MapItems(k, [i \in 1..Len(t) |-> t[i].s]))]
                  [] ty = "number" ->
                       [st1 EXCEPT !.Properties.ArrayProps.NumberItems =
                                       MapValueFrom(MapItems(k, [i \in 1..Len(t) |-> t[i].n]))]
                  [] ty = "boolean" ->
                       [st1 EXCEPT !.Properties.ArrayProps.BooleanItems =
                                       MapValueFrom(MapItems(k, [i \in 1..Len(t) |-> t[i].b]))]
                  [] OTHER ->
                       [st1 EXCEPT !.Properties.ArrayProps.ObjectItems =
                                       MapValueFrom(MapItems(k, [i \in 1..Len(t) |-> Marshal(t[i])]))]]

\* the body of refreshArrayEntityState, ty being the switch's operand
ArraySwitch(st, k, t, ty) ==
    LET st1 == IF st.Properties.ArrayProps.nil
               THEN [st EXCEPT !.Properties.ArrayProps = NewArrayProps]
               ELSE st
    IN  IF AssertionPanics(t, ty)
        THEN [panic |-> TRUE, state |-> st1]
        ELSE [panic |-> FALSE, state |->
                CASE ty = "string" ->
                       [st1 EXCEPT !.Properties.ArrayProps.StringItems =
                                       MapValueFrom(MapItems(k, [i \in 1..Len(t) |-> t[i].s]))]
                  [] ty = "number" ->
                       [st1 EXCEPT !.Properties.ArrayProps.NumberItems =
                                       MapValueFrom(MapItems(k, [i \in 1..Len(t) |-> t[i].n]))]
                  [] ty = "boolean" ->
                       [st1 EXCEPT !.Properties.ArrayProps.BooleanItems =
                                       MapValueFrom(MapItems(k, [i \in 1..Len(t) |-> t[i].b]))]
                  [] ty = "object" ->
                       [st1 EXCEPT !.Properties.ArrayProps.ObjectItems =
                                       MapValueFrom(MapItems(k, [i \in 1..Len(t) |-> Marshal(t[i])]))]
                  [] OTHER -> st1]

\* a switch on the runtime type of the first element instead
ArrayByRuntimeType(st, k, t, blueprint) ==
    ArraySwitch(st, k, t,
                IF Len(t) = 0 THEN "<nil>"
                ELSE CASE t[1].t = "string" -> "string"
                       [] t[1].t = "float64" -> "number"
                       [] t[1].t = "bool" -> "boolean"
                       [] OTHER -> "object")

refreshArrayEntityState(st, k, t, blueprint) ==
    ArraySwitch(st, k, t, ItemsType(blueprint, k))

---------------------------------------------------------------------------
(* refreshPropertiesEntityState                                            *)

\* the type switch without its `case bool`: a boolean falls to interface{}
PropertyStepNoBool(st, k, v, blueprint) ==
    CASE v.t = "float64" ->
           [panic |-> FALSE,
            state |-> [st EXCEPT !.Properties.NumberProps = Put(@, k, v.n)]]
      [] v.t = "string" ->
           [panic |-> FALSE,
            state |-> [st EXCEPT !.Properties.StringProps = Put(@, k, v.s)]]
      [] v.t = "slice" -> refreshArrayEntityState(st, k, v.l, blueprint)
      [] v.t \in {"map", "bool"} ->
           [panic |-> FALSE,
            state |-> [st EXCEPT !.Properties.ObjectProps = Put(@, k, Marshal(v))]]
      [] OTHER -> [panic |-> FALSE, state |-> st]

\* one iteration of `for k, v := range e.Properties`: the type switch
PropertyStep(st, k, v, blueprint) ==
    CASE v.t = "float64" ->
           [panic |-> FALSE,
            state |-> [st EXCEPT !.Properties.NumberProps = Put(@, k, v.n)]]
      [] v.t = "string" ->
           [panic |-> FALSE,
            state |-> [st EXCEPT !.Properties.StringProps = Put(@, k, v.s)]]
      [] v.t = "bool" ->
           [panic |-> FALSE,
            state |-> [st EXCEPT !.Properties.BooleanProps = Put(@, k, v.b)]]
      [] v.t = "slice" -> refreshArrayEntityState(st, k, v.l, blueprint)
      [] v.t = "map" ->
           [panic |-> FALSE,
            state |-> [st EXCEPT !.Properties.ObjectProps = Put(@, k, Marshal(v))]]
      [] OTHER -> [panic |-> FALSE, state |-> st]

\* the range loop, visiting the keys in the order `order`; a panic ends it
RECURSIVE RangeProperties(_, _, _, _)
RangeProperties(st, e, blueprint, order) ==
    IF Len(order) = 0 THEN [panic |-> FALSE, state |-> st]
    ELSE LET r == PropertyStep(st, Head(order), e.Properties[Head(order)], blueprint)
         IN  IF r.panic THEN r
             ELSE RangeProperties(r.state, e, blueprint, Tail(order))

refreshPropertiesEntityState(st, e, blueprint, order) ==
    RangeProperties([st EXCEPT !.Properties = NewProperties], e, blueprint, order)

---------------------------------------------------------------------------
(* refreshRelationsEntityState                                             *)

\* the loop body without the two `len(v) != 0` guards
RelationStepKeepEmpty(rel, identifier, r) ==
    CASE r.t = "[]string" ->
           [rel EXCEPT !.ManyRelations = Put(@, identifier, r.l)]
      [] r.t = "string" ->
           [rel EXCEPT !.SingleRelation = Put(@, identifier, r.s)]
      [] OTHER -> rel

\* one iteration of `for identifier, r := range e.Relations`
RelationStep(rel, identifier, r) ==
    CASE r.t = "[]string" /\ Len(r.l) # 0 ->
           [rel EXCEPT !.ManyRelations = Put(@, identifier, r.l)]
      [] r.t = "string" /\ r.s # "" ->
           [rel EXCEPT !.SingleRelation = Put(@, identifier, r.s)]
      [] OTHER -> rel

RECURSIVE RangeRelations(_, _, _)
RangeRelations(rel, e, todo) ==
    IF todo = {} THEN rel
    ELSE LET identifier == CHOOSE x \in todo : TRUE
         IN  RangeRelations(RelationStep(rel, identifier, e.Relations[identifier]),
                            e, todo \ {identifier})

\* the value of the local variable `relations` when the function returns
LocalRelations(e) == RangeRelations(NewRelations, e, DOMAIN e.Relations)

\* the function builds `relations` and returns: state is not assigned
refreshRelationsEntityState(st, e) == st

---------------------------------------------------------------------------
(* refreshEntityState                                                      *)

\* refreshEntityState appending the teams to the ones the state has
refreshEntityStateAppendTeams(st, e, blueprint, order) ==
    LET s1 == [st EXCEPT !.ID = e.Identifier,
                         !.Identifier = e.Identifier,
                         !.Blueprint = blueprint.Identifier,
                         !.Title = e.Title,
                         !.CreatedAt = TimeString(e.CreatedAt),
                         !.CreatedBy = e.CreatedBy,
                         !.UpdatedAt = TimeString(e.UpdatedAt),
                         !.UpdatedBy = e.UpdatedBy]
        s2 == IF Len(e.Team) # 0
              THEN [s1 EXCEPT !.Teams = @ \o e.Team]
              ELSE s1
        r3 == IF Cardinality(DOMAIN e.Properties) # 0
              THEN refreshPropertiesEntityState(s2, e, blueprint, order)
              ELSE [panic |-> FALSE, state |-> s2]
    IN  IF r3.panic THEN [ret |-> "panic", state |-> r3.state]
        ELSE [ret |-> "nil",
              state |-> IF Cardinality(DOMAIN e.Relations) # 0
                        THEN refreshRelationsEntityState(r3.state, e)
                        ELSE r3.state]

refreshEntityState(st, e, blueprint, order) ==
    LET s1 == [st EXCEPT !.ID = e.Identifier,
                         !.Identifier = e.Identifier,
                         !.Blueprint = blueprint.Identifier,
                         !.Title = e.Title,
                         !.CreatedAt = TimeString(e.CreatedAt),
                         !.CreatedBy = e.CreatedBy,
                         !.UpdatedAt = TimeString(e.UpdatedAt),
                         !.UpdatedBy = e.UpdatedBy]
        s2 == IF Len(e.Team) # 0
              THEN [s1 EXCEPT !.Teams = [i \in 1..Len(e.Team) |-> e.Team[i]]]
              ELSE s1
        r3 == IF Cardinality(DOMAIN e.Properties) # 0
              THEN refreshPropertiesEntityState(s2, e, blueprint, order)
              ELSE [panic |-> FALSE, state |-> s2]
    IN  IF r3.panic THEN [ret |-> "panic", state |-> r3.state]
        ELSE [ret |-> "nil",
              state |-> IF Cardinality(DOMAIN e.Relations) # 0
                        THEN refreshRelationsEntityState(r3.state, e)
                        ELSE r3.state]

---------------------------------------------------------------------------
(* The wire entities and blueprints the model feeds to refreshEntityState. *)

Time1 == [year |-> 2023, month |-> 1, day |-> 2, hour |-> 3, min |-> 4, sec |-> 5]
Time2 == [year |-> 2024, month |-> 11, day |-> 30, hour |-> 12, min |-> 0, sec |-> 59]

\* element i of a wire list of each kind
WireElem(kind, i) ==
    CASE kind = "string" -> Str(IF i % 2 = 1 THEN "a" ELSE "b")
      [] kind = "number" -> Num(i)
      [] kind = "boolean" -> Bool(i % 2 = 0)
      [] kind = "object" -> Obj(<<<<"k", i>>>>)
      [] OTHER -> IF i = 1 THEN Str("a") ELSE Num(i)

ElemKinds == {"string", "number", "boolean", "object", "mixed"}

WireLists ==
    {List(<<>>)} \cup
    {List([i \in 1..n |-> WireElem(kind, i)]) : kind \in ElemKinds, n \in 1..MaxLen}

WireScalars == {Num(3), Str("prod"), Bool(TRUE), Null, Obj(<<<<"k", 1>>>>)}

\* what a blueprint may say of an array property: one of the four items
\* types, Items without a "type", or no entry for the property at all
Undeclared == "<undeclared>"
Absent == "<absent>"
DeclaredTypes == {"string", "number", "boolean", "object", Undeclared, Absent}

NoProp == [present |-> FALSE, v |-> Null, decl |-> Absent]

TagsChoices ==
    {NoProp}
    \cup {[present |-> TRUE, v |-> v, decl |-> Absent] : v \in WireScalars}
    \cup {[present |-> TRUE, v |-> v, decl |-> d] : v \in WireLists, d \in DeclaredTypes}

LabelsChoices ==
    {NoProp}
    \cup {[present |-> TRUE, v |-> List(<<Str("x")>>), decl |-> d] :
             d \in {"string", "object", Absent}}

\* a map holding the present ones of the named choices
PropsOf(names, choice) ==
    [k \in {x \in names : choice[x].present} |-> choice[k].v]

SchemaOf(names, choice) ==
    [k \in {x \in names : choice[x].present /\ choice[x].decl # Absent} |->
        [Items |-> IF choice[k].decl = Undeclared THEN EmptyMap
                   ELSE "type" :> choice[k].decl]]

BlueprintOf(schemaProps) ==
    [Identifier |-> "microservice", Schema |-> [Properties |-> schemaProps]]

EntityOf(team, props, rels, n) ==
    [Identifier |-> IF n = 1 THEN "svc-1" ELSE "svc-2",
     Title |-> IF n = 1 THEN "Service 1" ELSE "Service 2",
     Team |-> team, Properties |-> props, Relations |-> rels,
     CreatedAt |-> Time1, CreatedBy |-> "alice",
     UpdatedAt |-> IF n = 1 THEN Time1 ELSE Time2,
     UpdatedBy |-> IF n = 1 THEN "alice" ELSE "bob"]

\* the scalar properties of the scenario entity svc-1
ScenarioProps == ("env" :> Str("prod")) @@ ("replicas" :> Num(3)) @@ ("public" :> Bool(TRUE))

RelStr(s) == [t |-> "string", s |-> s, l |-> <<>>]
RelStrings(l) == [t |-> "[]string", s |-> "", l |-> l]
RelList(l) == [t |-> "[]interface{}", s |-> "", l |-> l]

OwnerChoices == {[present |-> FALSE, v |-> RelStr("")]} \cup
    {[present |-> TRUE, v |-> v] : v \in {RelStr(""), RelStr("team-x")}}

DependsOnChoices == {[present |-> FALSE, v |-> RelStr("")]} \cup
    {[present |-> TRUE, v |-> v] :
        v \in {RelStrings(<<>>), RelStrings(<<"svc-2", "svc-3">>), RelList(<<>>),
                RelList(<<"svc-2", "svc-3">>), RelStr("svc-2")}}

TeamLists == {[i \in 1..n |-> IF i % 2 = 1 THEN "t1" ELSE "t2"] : n \in 0..MaxTeams}

\* entities with array and other properties of every shape
PropertyInputs ==
    {[e |-> EntityOf(<<"t1">>, PropsOf({"tags", "labels"}, c), EmptyMap, 1),
      blueprint |-> BlueprintOf(SchemaOf({"tags", "labels"}, c))] :
        c \in [tags : TagsChoices, labels : LabelsChoices]}

ScenarioBlueprint == BlueprintOf(EmptyMap)

\* the scenario entity with team lists of every length, and the bare entity
TeamInputs ==
    {[e |-> EntityOf(team, props, EmptyMap, 2), blueprint |-> ScenarioBlueprint] :
        team \in TeamLists, props \in {ScenarioProps, EmptyMap}}

\* the scenario entity with relations of every shape
RelationInputs ==
    {[e |-> EntityOf(<<"t1">>, ScenarioProps, PropsOf({"owner", "depends_on"}, c), 1),
      blueprint |-> ScenarioBlueprint] :
        c \in [owner : OwnerChoices, depends_on : DependsOnChoices]}

Inputs == PropertyInputs \cup TeamInputs \cup RelationInputs

\* the orders in which a range loop may visit the keys S of a Go map
Orders(S) ==
    {f \in [1..Cardinality(S) -> S] : \A x \in S : \E i \in DOMAIN f : f[i] = x}

---------------------------------------------------------------------------
(* port/cli/entity.go: ReadEntity, CreateEntity, DeleteEntity.             *)
(* An exchange is what the HTTP client hands back: a transport error, or   *)
(* a response with a status, a content type and a raw body.                *)

BodyOkEntity == "{\"ok\":true,\"entity\":{\"identifier\":\"svc-1\"}}"
BodyOkBare == "{\"ok\":true}"
BodyNotOk == "{\"ok\":false}"
BodyNotOkError == "{\"ok\":false,\"error\":\"not_found\"}"
BodyNoFlag == "{\"entity\":{\"identifier\":\"svc-1\"}}"
BodyHtml == "<html>Bad Gateway</html>"
BodyEmpty == ""

Bodies == {BodyOkEntity, BodyOkBare, BodyNotOk, BodyNotOkError, BodyNoFlag,
           BodyHtml, BodyEmpty}

ZeroEntity == [Identifier |-> ""]
ZeroPortBody == [OK |-> FALSE, Entity |-> ZeroEntity]

\* json.Unmarshal(body, &pb) on a zero PortBody
UnmarshalPortBody(body) ==
    CASE body = BodyOkEntity ->
           [err |-> "nil", pb |-> [OK |-> TRUE, Entity |-> [Identifier |-> "svc-1"]]]
      [] body = BodyOkBare -> [err |-> "nil", pb |-> [OK |-> TRUE, Entity |-> ZeroEntity]]
      [] body \in {BodyNotOk, BodyNotOkError} -> [err |-> "nil", pb |-> ZeroPortBody]
      [] body = BodyNoFlag ->
           [err |-> "nil", pb |-> [OK |-> FALSE, Entity |-> [Identifier |-> "svc-1"]]]
      [] body = BodyEmpty -> [err |-> "unexpected end of JSON input", pb |-> ZeroPortBody]
      [] OTHER -> [err |-> "invalid character '<' looking for beginning of value",
                   pb |-> ZeroPortBody]

Statuses == {200, 204, 404, 500}

\* the round trip fails before a response, or while the body is being read
Refused == "dial tcp: connection refused"
DeadlineExceeded == "context deadline exceeded"

Exchanges ==
    {[transport |-> Refused, status |-> 0, json |-> FALSE, body |-> BodyEmpty],
     [transport |-> DeadlineExceeded, status |-> 200, json |-> TRUE, body |-> BodyOkEntity]}
    \cup [transport : {"nil"}, status : Statuses, json : BOOLEAN, body : Bodies]

NoEntity == [nil |-> TRUE, Identifier |-> ""]
EntityPtr(e) == [nil |-> FALSE, Identifier |-> e.Identifier]

\* the request's SetResult(pb): the client decodes the body into the result
\* only for a 2xx status other than 204 and a JSON content type, and a
\* decoding failure there is the error the request returns
SetResult(x) ==
    IF x.status \in 200..299 /\ x.status # 204 /\ x.json
    THEN UnmarshalPortBody(x.body)
    ELSE [err |-> "nil", pb |-> ZeroPortBody]

\* fmt.Errorf("failed to <verb> entity, got: %s", resp.Body())
Errorf(verb, body) == "failed to " \o verb \o " entity, got: " \o body

\* ReadEntity handing back the decoded entity beside the ok=false error
ReadEntityWithError(x) ==
    IF x.transport # "nil"
    THEN [entity |-> NoEntity, err |-> x.transport, pe |-> "non-nil", requests |-> 1]
    ELSE LET d == UnmarshalPortBody(x.body)
         IN  IF d.err # "nil"
             THEN [entity |-> NoEntity, err |-> d.err, pe |-> "non-nil", requests |-> 1]
             ELSE IF ~d.pb.OK
             THEN [entity |-> EntityPtr(d.pb.Entity), err |-> Errorf("read", x.body),
                   pe |-> "non-nil", requests |-> 1]
             ELSE [entity |-> EntityPtr(d.pb.Entity), err |-> "nil",
                   pe |-> "non-nil", requests |-> 1]

\* ReadEntity looking at the ok flag before the decoding error
ReadEntityFlagFirst(x) ==
    IF x.transport # "nil"
    THEN [entity |-> NoEntity, err |-> x.transport, pe |-> "non-nil", requests |-> 1]
    ELSE LET d == UnmarshalPortBody(x.body)
         IN  IF ~d.pb.OK
             THEN [entity |-> NoEntity, err |-> Errorf("read", x.body),
                   pe |-> "non-nil", requests |-> 1]
             ELSE IF d.err # "nil"
             THEN [entity |-> NoEntity, err |-> d.err, pe |-> "non-nil", requests |-> 1]
             ELSE [entity |-> EntityPtr(d.pb.Entity), err |-> "nil",
                   pe |-> "non-nil", requests |-> 1]

\* ReadEntity handing back the error detail only beside an error
ReadEntityDetailOnError(x) ==
    IF x.transport # "nil"
    THEN [entity |-> NoEntity, err |-> x.transport, pe |-> "non-nil", requests |-> 1]
    ELSE LET d == UnmarshalPortBody(x.body)
         IN  IF d.err # "nil"
             THEN [entity |-> NoEntity, err |-> d.err, pe |-> "non-nil", requests |-> 1]
             ELSE IF ~d.pb.OK
             THEN [entity |-> NoEntity, err |-> Errorf("read", x.body),
                   pe |-> "non-nil", requests |-> 1]
             ELSE [entity |-> EntityPtr(d.pb.Entity), err |-> "nil",
                   pe |-> "nil", requests |-> 1]

\* ReadEntity returns (entity, err, pe); pe is the &PortError{} made on
\* entry, returned on every path
ReadEntity(x) ==
    IF x.transport # "nil"
    THEN [entity |-> NoEntity, err |-> x.transport, pe |-> "non-nil", requests |-> 1]
    ELSE LET d == UnmarshalPortBody(x.body)
         IN  IF d.err # "nil"
             THEN [entity |-> NoEntity, err |-> d.err, pe |-> "non-nil", requests |-> 1]
             ELSE IF ~d.pb.OK
             THEN [entity |-> NoEntity, err |-> Errorf("read", x.body),
                   pe |-> "non-nil", requests |-> 1]
             ELSE [entity |-> EntityPtr(d.pb.Entity), err |-> "nil",
                   pe |-> "non-nil", requests |-> 1]

\* CreateEntity trusting the HTTP status in place of pb.OK
CreateEntityByStatus(x) ==
    LET d == SetResult(x)
    IN  IF x.transport # "nil"
        THEN [entity |-> NoEntity, err |-> x.transport, pe |-> "none", requests |-> 1]
        ELSE IF d.err # "nil"
        THEN [entity |-> NoEntity, err |-> d.err, pe |-> "none", requests |-> 1]
        ELSE IF x.status \notin 200..299
        THEN [entity |-> NoEntity, err |-> Errorf("create", x.body),
              pe |-> "none", requests |-> 1]
        ELSE [entity |-> EntityPtr(d.pb.Entity), err |-> "nil", pe |-> "none",
              requests |-> 1]

\* CreateEntity sending the request again after a transport error
CreateEntityRetry(x) ==
    LET d == SetResult(x)
    IN  IF x.transport # "nil"
        THEN [entity |-> NoEntity, err |-> x.transport, pe |-> "none", requests |-> 2]
        ELSE IF d.err # "nil"
        THEN [entity |-> NoEntity, err |-> d.err, pe |-> "none", requests |-> 1]
        ELSE IF ~d.pb.OK
        THEN [entity |-> NoEntity, err |-> Errorf("create", x.body),
              pe |-> "none", requests |-> 1]
        ELSE [entity |-> EntityPtr(d.pb.Entity), err |-> "nil", pe |-> "none",
              requests |-> 1]

\* CreateEntity returns (entity, err)
CreateEntity(x) ==
    LET d == SetResult(x)
    IN  IF x.transport # "nil"
        THEN [entity |-> NoEntity, err |-> x.transport, pe |-> "none", requests |-> 1]
        ELSE IF d.err # "nil"
        THEN [entity |-> NoEntity, err |-> d.err, pe |-> "none", requests |-> 1]
        ELSE IF ~d.pb.OK
        THEN [entity |-> NoEntity, err |-> Errorf("create", x.body),
              pe |-> "none", requests |-> 1]
        ELSE [entity |-> EntityPtr(d.pb.Entity), err |-> "nil", pe |-> "none",
              requests |-> 1]

\* DeleteEntity looking at the envelope before the error of the round trip
DeleteEntityEnvelopeFirst(x) ==
    LET d == SetResult(x)
    IN  IF ~d.pb.OK
        THEN [entity |-> NoEntity, err |-> Errorf("delete", x.body),
              pe |-> "none", requests |-> 1]
        ELSE IF x.transport # "nil"
        THEN [entity |-> NoEntity, err |-> x.transport, pe |-> "none", requests |-> 1]
        ELSE IF d.err # "nil"
        THEN [entity |-> NoEntity, err |-> d.err, pe |-> "none", requests |-> 1]
        ELSE [entity |-> NoEntity, err |-> "nil", pe |-> "none", requests |-> 1]

\* DeleteEntity returns err
DeleteEntity(x) ==
    LET d == SetResult(x)
    IN  IF x.transport # "nil"
        THEN [entity |-> NoEntity, err |-> x.transport, pe |-> "none", requests |-> 1]
        ELSE IF d.err # "nil"
        THEN [entity |-> NoEntity, err |-> d.err, pe |-> "none", requests |-> 1]
        ELSE IF ~d.pb.OK
        THEN [entity |-> NoEntity, err |-> Errorf("delete", x.body),
              pe |-> "none", requests |-> 1]
        ELSE [entity |-> NoEntity, err |-> "nil", pe |-> "none", requests |-> 1]

NoCall == [op |-> "none", x |-> [transport |-> "nil", status |-> 0, json |-> FALSE,
                                 body |-> BodyEmpty]]
NoReturn == [entity |-> NoEntity, err |-> "nil", pe |-> "none", requests |-> 0]

---------------------------------------------------------------------------
(* scorecardResourceToPortBody                                             *)

CondTeam == "{\"operator\":\"isNotEmpty\",\"property\":\"$team\"}"
CondLang == "{\"operator\":\"=\",\"property\":\"lang\",\"value\":\"Go\"}"
CondMalformed == "{\"property\":"
CondArray == "[\"a\"]"
CondNullText == "null"
CondNumber == "3"
CondText == "\"a\""
CondBool == "true"

CondStrings == {CondTeam, CondLang, CondMalformed, CondArray, CondNullText,
                CondNumber, CondText, CondBool}

\* a types.String: null, or a known string
StringNull == [null |-> TRUE, s |-> ""]
StringValue(s) == [null |-> FALSE, s |-> s]

SyntaxError == "unexpected end of JSON input"
TypeError == "json: cannot unmarshal array into Go value of type map[string]interface {}"

\* the *json.UnmarshalTypeError of a JSON value of the kind into the map
TypeErrorOf(kind) ==
    "json: cannot unmarshal " \o kind \o " into Go value of type map[string]interface {}"

\* a map[string]interface{}: nil, or its fields as <<key, value>> pairs in
\* key order
NilCond == [nil |-> TRUE, fields |-> <<>>]
MapCond(fields) == [nil |-> FALSE, fields |-> fields]

\* cond := map[string]interface{}{}; err := json.Unmarshal([]byte(s), &cond):
\* the error and cond afterwards.  An object fills the map; the text null
\* is no error and sets the map to nil; a JSON value of another kind is an
\* UnmarshalTypeError and text that is not JSON a SyntaxError
UnmarshalCond(s) ==
    CASE s = CondTeam ->
           [err |-> "nil",
            cond |-> MapCond(<<<<"operator", "isNotEmpty">>, <<"property", "$team">>>>)]
      [] s = CondLang ->
           [err |-> "nil",
            cond |-> MapCond(<<<<"operator", "=">>, <<"property", "lang">>,
                               <<"value", "Go">>>>)]
      [] s = CondNullText -> [err |-> "nil", cond |-> NilCond]
      [] s = CondArray -> [err |-> TypeError, cond |-> MapCond(<<>>)]
      [] s = CondNumber -> [err |-> TypeErrorOf("number"), cond |-> MapCond(<<>>)]
      [] s = CondText -> [err |-> TypeErrorOf("string"), cond |-> MapCond(<<>>)]
      [] s = CondBool -> [err |-> TypeErrorOf("bool"), cond |-> MapCond(<<>>)]
      [] OTHER -> [err |-> SyntaxError, cond |-> MapCond(<<>>)]

\* the conditions loop without the IsNull test: a null condition is decoded
\* from its empty string value, or on success kept as a nil entry
RECURSIVE DecodeConditionsKeepNull(_, _)
DecodeConditionsKeepNull(stateConditions, conditions) ==
    IF Len(stateConditions) = 0 THEN [err |-> "nil", conditions |-> conditions]
    ELSE LET stateCondition == Head(stateConditions)
         IN  IF stateCondition.null
             THEN DecodeConditionsKeepNull(Tail(stateConditions),
                                           Append(conditions, NilCond))
             ELSE LET d == UnmarshalCond(stateCondition.s)
                  IN  IF d.err # "nil" THEN [err |-> d.err, conditions |-> conditions]
                      ELSE DecodeConditionsKeepNull(Tail(stateConditions),
                                                    Append(conditions, d.cond))

\* the loop over stateRule.Query.Conditions: the first error ends it
RECURSIVE DecodeConditions(_, _)
DecodeConditions(stateConditions, conditions) ==
    IF Len(stateConditions) = 0 THEN [err |-> "nil", conditions |-> conditions]
    ELSE LET stateCondition == Head(stateConditions)
         IN  IF stateCondition.null
             THEN DecodeConditions(Tail(stateConditions), conditions)
             ELSE LET d == UnmarshalCond(stateCondition.s)
                  IN  IF d.err # "nil" THEN [err |-> d.err, conditions |-> conditions]
                      ELSE DecodeConditions(Tail(stateConditions),
                                            Append(conditions, d.cond))

\* the rules loop putting each rule before the ones built so far
RECURSIVE BuildRulesReversed(_, _)
BuildRulesReversed(stateRules, rules) ==
    IF Len(stateRules) = 0 THEN [err |-> "nil", rules |-> rules]
    ELSE LET stateRule == Head(stateRules)
             d == DecodeConditions(stateRule.Query.Conditions, <<>>)
         IN  IF d.err # "nil" THEN [err |-> d.err, rules |-> rules]
             ELSE BuildRulesReversed(Tail(stateRules),
                    <<[Level |-> stateRule.Level,
                       Identifier |-> stateRule.Identifier,
                       Title |-> stateRule.Title,
                       Query |-> [Combinator |-> stateRule.Query.Combinator,
                                  Conditions |-> d.conditions]]>> \o rules)

\* the loop over state.Rules
RECURSIVE BuildRules(_, _)
BuildRules(stateRules, rules) ==
    IF Len(stateRules) = 0 THEN [err |-> "nil", rules |-> rules]
    ELSE LET stateRule == Head(stateRules)
             d == DecodeConditions(stateRule.Query.Conditions, <<>>)
         IN  IF d.err # "nil" THEN [err |-> d.err, rules |-> rules]
             ELSE BuildRules(Tail(stateRules),
                    Append(rules,
                           [Level |-> stateRule.Level,
                            Identifier |-> stateRule.Identifier,
                            Title |-> stateRule.Title,
                            Query |-> [Combinator |-> stateRule.Query.Combinator,
                                       Conditions |-> d.conditions]]))

NilScorecard == [nil |-> TRUE, Identifier |-> "", Title |-> "", Rules |-> <<>>]

\* returning the body built so far together with the error
scorecardPartialBody(st) ==
    LET r == BuildRules(st.Rules, <<>>)
    IN  [s |-> [nil |-> FALSE, Identifier |-> st.Identifier,
                Title |-> st.Title, Rules |-> r.rules],
         err |-> r.err]

\* returns (s, err)
scorecardResourceToPortBody(st) ==
    LET r == BuildRules(st.Rules, <<>>)
    IN  IF r.err # "nil" THEN [s |-> NilScorecard, err |-> r.err]
        ELSE [s |-> [nil |-> FALSE, Identifier |-> st.Identifier,
                     Title |-> st.Title, Rules |-> r.rules],
              err |-> "nil"]

\* longest list of conditions of a rule
MaxConds == 2

CondValues == {StringNull} \cup {StringValue(s) : s \in CondStrings}

ConditionLists == UNION {[1..n -> CondValues] : n \in 0..MaxConds}

RuleOf(n, combinator, conds) ==
    [Level |-> IF n = 1 THEN "Gold" ELSE "Silver",
     Identifier |-> IF n = 1 THEN "has-team" ELSE "uses-go",
     Title |-> IF n = 1 THEN "Has team" ELSE "Uses Go",
     Query |-> [Combinator |-> combinator, Conditions |-> conds]]

FixedRule == RuleOf(2, "or", <<StringValue(CondLang)>>)

RuleLists ==
    {<<>>}
    \cup {<<RuleOf(1, "and", c)>> : c \in ConditionLists}
    \cup {<<RuleOf(1, "and", c), FixedRule>> : c \in ConditionLists}
    \cup {<<FixedRule, RuleOf(1, "and", c)>> : c \in ConditionLists}

ScorecardModels ==
    {[Identifier |-> "ownership", Title |-> "Ownership", Rules |-> r] : r \in RuleLists}

NotCalled == [s |-> NilScorecard, err |-> "not called"]

---------------------------------------------------------------------------
(* The configuration -> wire direction for entities (4.1 of the design):   *)
(* the typed containers merged into one properties mapping, the relation   *)
(* containers into one relations mapping.                                  *)

entityResourceToPortBody(model) ==
    LET S == model.Properties.StringProps
        N == model.Properties.NumberProps
        B == model.Properties.BooleanProps
        single == model.Relations.SingleRelation
        many == model.Relations.ManyRelations
    IN  [Identifier |-> model.Identifier,
         Title |-> model.Title,
         Team |-> model.Teams,
         Properties |->
             [k \in DOMAIN S \cup DOMAIN N \cup DOMAIN B |->
                 IF k \in DOMAIN S THEN Str(S[k])
                 ELSE IF k \in DOMAIN N THEN Num(N[k]) ELSE Bool(B[k])],
         Relations |->
             [k \in DOMAIN single \cup DOMAIN many |->
                 IF k \in DOMAIN single THEN RelStr(single[k]) ELSE RelStrings(many[k])]]

\* the body as the API sends it back: decoded from JSON, a list is a
\* []interface{}, and the audit fields are the server's
WireShapeOf(body) ==
    [Identifier |-> body.Identifier, Title |-> body.Title, Team |-> body.Team,
     Properties |-> body.Properties,
     Relations |-> [k \in DOMAIN body.Relations |->
                       IF body.Relations[k].t = "[]string"
                       THEN RelList(body.Relations[k].l) ELSE body.Relations[k]],
     CreatedAt |-> Time1, CreatedBy |-> "alice",
     UpdatedAt |-> Time1, UpdatedBy |-> "alice"]

\* configuration models with scalar properties and relations only
ConfigModels ==
    {[FreshState EXCEPT
        !.Identifier = "svc-1", !.Title = "Service 1", !.Blueprint = "microservice",
        !.Properties = [NewProperties EXCEPT !.StringProps = sp, !.NumberProps = np,
                                             !.BooleanProps = bo],
        !.Relations = [NewRelations EXCEPT !.SingleRelation = sr, !.ManyRelations = mr]] :
        sp \in {EmptyMap, "env" :> "prod", "env" :> ""},
        np \in {EmptyMap, "replicas" :> 3},
        bo \in {EmptyMap, "public" :> TRUE, "public" :> FALSE},
        sr \in {EmptyMap, "owner" :> "team-x"},
        mr \in {EmptyMap, "depends_on" :> <<"svc-2", "svc-3">>}}

---------------------------------------------------------------------------
(* The state machines: a state object refreshed from wire entities; the    *)
(* client operations; the scorecard translation.                           *)

InitEntity ==
    /\ state = FreshState
    /\ wire = EntityOf(<<>>, EmptyMap, EmptyMap, 1)
    /\ bp = ScenarioBlueprint
    /\ ret = "none"
    /\ relations = NilRelations
    /\ plan = FreshState

InitCli ==
    /\ cliCall = NoCall
    /\ cliRet = NoReturn

InitScorecard ==
    /\ scState = [Identifier |-> "ownership", Title |-> "Ownership", Rules |-> <<>>]
    /\ scRet = NotCalled

Init == InitEntity /\ InitCli /\ InitScorecard

\* one call refreshEntityState(ctx, state, e, blueprint); a panic ends the
\* process
Refresh ==
    /\ ret # "panic"
    /\ \E in \in Inputs :
         \E order \in Orders(DOMAIN in.e.Properties) :
            LET r == refreshEntityState(state, in.e, in.blueprint, order)
            IN  /\ state' = r.state
                /\ ret' = r.ret
                /\ wire' = in.e
                /\ bp' = in.blueprint
                /\ relations' = IF r.ret = "nil" /\ Cardinality(DOMAIN in.e.Relations) # 0
                                THEN LocalRelations(in.e)
                                ELSE NilRelations
    /\ UNCHANGED <<planVars, cliVars, scVars>>

Next == Refresh

Spec == Init /\ [][Next]_vars


CallReadEntity ==
    /\ \E x \in Exchanges :
         /\ cliCall' = [op |-> "ReadEntity", x |-> x]
         /\ cliRet' = ReadEntity(x)
    /\ UNCHANGED <<entityVars, planVars, scVars>>

CallCreateEntity ==
    /\ \E x \in Exchanges :
         /\ cliCall' = [op |-> "CreateEntity", x |-> x]
         /\ cliRet' = CreateEntity(x)
    /\ UNCHANGED <<entityVars, planVars, scVars>>

CallDeleteEntity ==
    /\ \E x \in Exchanges :
         /\ cliCall' = [op |-> "DeleteEntity", x |-> x]
         /\ cliRet' = DeleteEntity(x)
    /\ UNCHANGED <<entityVars, planVars, scVars>>

NextCli == CallReadEntity \/ CallCreateEntity \/ CallDeleteEntity

SpecCli == Init /\ [][NextCli]_vars

\* the scorecard translation applied to a configuration model
InitScorecardModels ==
    /\ InitEntity
    /\ InitCli
    /\ scState \in ScorecardModels
    /\ scRet = NotCalled

\* the translation sending the body itself once it is built
ToPortBodySending ==
    /\ scRet = NotCalled
    /\ scRet' = scorecardResourceToPortBody(scState)
    /\ cliRet' = IF scRet'.err = "nil" THEN [cliRet EXCEPT !.requests = 1] ELSE cliRet
    /\ UNCHANGED <<scState, entityVars, planVars, cliCall>>

ToPortBody ==
    /\ scRet = NotCalled
    /\ scRet' = scorecardResourceToPortBody(scState)
    /\ UNCHANGED <<scState, entityVars, planVars, cliVars>>

NextScorecard == ToPortBody

SpecScorecard == InitScorecardModels /\ [][NextScorecard]_vars

\* the round trip of a configuration model: ToBody, the wire, ToState on a
\* fresh state object
InitRoundTrip ==
    /\ state = FreshState
    /\ wire = EntityOf(<<>>, EmptyMap, EmptyMap, 1)
    /\ bp = ScenarioBlueprint
    /\ ret = "none"
    /\ relations = NilRelations
    /\ plan \in ConfigModels
    /\ InitCli
    /\ InitScorecard

ToBody ==
    /\ ret = "none"
    /\ wire' = WireShapeOf(entityResourceToPortBody(plan))
    /\ ret' = "sent"
    /\ UNCHANGED <<state, bp, relations, planVars, cliVars, scVars>>

ToState ==
    /\ ret = "sent"
    /\ \E order \in Orders(DOMAIN wire.Properties) :
         LET r == refreshEntityState(state, wire, bp, order)
         IN  /\ state' = r.state
             /\ ret' = r.ret
             /\ relations' = IF r.ret = "nil" /\ Cardinality(DOMAIN wire.Relations) # 0
                             THEN LocalRelations(wire)
                             ELSE NilRelations
    /\ UNCHANGED <<wire, bp, planVars, cliVars, scVars>>

NextRoundTrip == ToBody \/ ToState

SpecRoundTrip == InitRoundTrip /\ [][NextRoundTrip]_vars

---------------------------------------------------------------------------
(* Vocabulary of the properties below.                                     *)

Returned == ret = "nil"

HasProperties == Cardinality(DOMAIN wire.Properties) # 0
HasRelations == Cardinality(DOMAIN wire.Relations) # 0

ItemMaps == {"StringItems", "NumberItems", "BooleanItems", "ObjectItems"}

\* the items map a declared items.type stands for
ItemMapOf(ty) ==
    CASE ty = "string" -> "StringItems"
      [] ty = "number" -> "NumberItems"
      [] ty = "boolean" -> "BooleanItems"
      [] ty = "object" -> "ObjectItems"
      [] OTHER -> "none"

\* the property containers of the state that have an entry named k
Holding(k) ==
    {c \in {"StringProps", "NumberProps", "BooleanProps", "ObjectProps"} :
        k \in DOMAIN state.Properties[c]}
    \cup {c \in ItemMaps : k \in DOMAIN state.Properties.ArrayProps[c].elems}

IsList(k) == wire.Properties[k].t = "slice"

\* the wire list of k as the declared items.type ty records it
Recorded(k, ty) ==
    LET l == wire.Properties[k].l
    IN  CASE ty = "string" -> [i \in 1..Len(l) |-> l[i].s]
          [] ty = "number" -> [i \in 1..Len(l) |-> l[i].n]
          [] ty = "boolean" -> [i \in 1..Len(l) |-> l[i].b]
          [] OTHER -> [i \in 1..Len(l) |-> Marshal(l[i])]

\* k is the only list-valued property of the wire entity
OnlyList(k) == \A j \in DOMAIN wire.Properties : IsList(j) => j = k

---------------------------------------------------------------------------
\* k carries a value the data model gives a container
HasContainer(k) ==
    /\ wire.Properties[k].t # "nil"
    /\ IsList(k) => (Len(wire.Properties[k].l) # 0 /\ ItemMapOf(ItemsType(bp, k)) # "none")

(* C1: after refreshEntityState, every property name of the wire           *)
(* properties mapping is held by exactly one property container of the     *)
(* state (StringProps, NumberProps, BooleanProps, ObjectProps or one of    *)
(* the four items maps): never by none, never by more than one.  Stated    *)
(* for the entities whose every property carries a value the data model    *)
(* gives a container: a number, string, boolean or object, or a non-empty  *)
(* list whose items.type the blueprint declares.                           *)
C1_TypePartition ==
    (Returned /\ HasProperties /\ \A k \in DOMAIN wire.Properties : HasContainer(k)) =>
        \A k \in DOMAIN wire.Properties : Cardinality(Holding(k)) = 1

(* C2: after refreshEntityState on a wire entity with relations, the       *)
(* state's relation container holds every non-empty string relation under  *)
(* SingleRelation and every non-empty list relation under ManyRelations,   *)
(* with the identifiers in wire order.                                     *)
C2_RelationsRecorded ==
    (Returned /\ HasRelations) =>
        \A k \in DOMAIN wire.Relations :
            LET r == wire.Relations[k]
            IN  /\ (r.t = "string" /\ r.s # "") =>
                       /\ k \in DOMAIN state.Relations.SingleRelation
                       /\ state.Relations.SingleRelation[k] = r.s
                /\ (r.t # "string" /\ Len(r.l) # 0) =>
                       /\ k \in DOMAIN state.Relations.ManyRelations
                       /\ state.Relations.ManyRelations[k] = r.l

(* C3: round trip.  For a configuration model with scalar properties and  *)
(* relations only, ToState of the wire shape of ToBody of the model gives  *)
(* a model whose property values and relation values are the original      *)
(* ones.                                                                   *)
C3_RoundTrip ==
    (plan # FreshState /\ Returned) =>
        /\ state.Properties.StringProps = plan.Properties.StringProps
        /\ state.Properties.NumberProps = plan.Properties.NumberProps
        /\ state.Properties.BooleanProps = plan.Properties.BooleanProps
        /\ state.Relations.SingleRelation = plan.Relations.SingleRelation
        /\ state.Relations.ManyRelations = plan.Relations.ManyRelations

(* C4: after any sequence of refreshEntityState calls on one state object, *)
(* the teams, properties and relations of the state are those a single     *)
(* call with the last wire entity and blueprint produces on a fresh state. *)
C4_FunctionOfLastInput ==
    Returned =>
        \E order \in Orders(DOMAIN wire.Properties) :
            LET single == refreshEntityState(FreshState, wire, bp, order).state
            IN  /\ state.Teams = single.Teams
                /\ state.Properties = single.Properties
                /\ state.Relations = single.Relations

ErrorPrefixes ==
    {"failed to read entity, got: ", "failed to create entity, got: ",
     "failed to delete entity, got: "}

EnvelopeNotOk ==
    /\ cliCall.op # "none"
    /\ cliCall.x.transport = "nil"
    /\ cliCall.x.body \in {BodyNotOk, BodyNotOkError}

(* C5: when the response envelope of ReadEntity, CreateEntity or           *)
(* DeleteEntity has ok=false, whatever the HTTP status (and content type), *)
(* the operation returns a non-nil error whose message ends with the raw   *)
(* response body, and returns no Entity.                                   *)
C5_NotOkIsError ==
    EnvelopeNotOk =>
        /\ cliRet.err # "nil"
        /\ \E prefix \in ErrorPrefixes : cliRet.err = prefix \o cliCall.x.body
        /\ cliRet.entity.nil

C5_Witness ==
    /\ cliCall.op = "CreateEntity"
    /\ cliCall.x = [transport |-> "nil", status |-> 200, json |-> TRUE, body |-> BodyNotOk]
    /\ cliRet.err = "failed to create entity, got: {\"ok\":false}"
    /\ cliRet.entity.nil

\* the non-null condition strings of the rules, in the order of the loops
RECURSIVE ConditionStrings(_)
ConditionStrings(stateRules) ==
    IF Len(stateRules) = 0 THEN <<>>
    ELSE SelectSeq(Head(stateRules).Query.Conditions, LAMBDA c : ~c.null)
         \o ConditionStrings(Tail(stateRules))

\* the condition strings json.Unmarshal does not store in a map, and the
\* error it gives for each
Undecodable == {CondMalformed, CondArray, CondNumber, CondText, CondBool}

ErrorOf(s) ==
    CASE s = CondMalformed -> "unexpected end of JSON input"
      [] s = CondArray ->
           "json: cannot unmarshal array into Go value of type map[string]interface {}"
      [] s = CondNumber ->
           "json: cannot unmarshal number into Go value of type map[string]interface {}"
      [] s = CondText ->
           "json: cannot unmarshal string into Go value of type map[string]interface {}"
      [] s = CondBool ->
           "json: cannot unmarshal bool into Go value of type map[string]interface {}"
      [] OTHER -> "nil"

\* the first condition string, in the order of the loops, that does not
\* decode (0: there is none)
FirstUndecodable ==
    LET cs == ConditionStrings(scState.Rules)
        bad == {i \in DOMAIN cs : cs[i].s \in Undecodable}
    IN  IF bad = {} THEN 0 ELSE CHOOSE i \in bad : \A j \in bad : i <= j

HasMalformedCondition ==
    \E i \in DOMAIN scState.Rules :
        \E j \in DOMAIN scState.Rules[i].Query.Conditions :
            LET c == scState.Rules[i].Query.Conditions[j]
            IN  ~c.null /\ c.s = CondMalformed

(* C6: when a non-null condition string of a rule is malformed JSON,       *)
(* scorecardResourceToPortBody returns the JSON-unmarshal error of the     *)
(* first condition that does not decode (the syntax error of the malformed *)
(* one, unless a condition of another JSON shape fails before it) and a    *)
(* nil Scorecard: no partly built body reaches the caller, and no request  *)
(* has been sent.                                                          *)
C6_MalformedConditionFails ==
    (scRet # NotCalled /\ HasMalformedCondition) =>
        /\ scRet.err = ErrorOf(ConditionStrings(scState.Rules)[FirstUndecodable].s)
        /\ scRet.s = NilScorecard
        /\ cliRet.requests = 0

C6_Witness ==
    /\ scRet # NotCalled
    /\ Len(scState.Rules) = 2
    /\ scState.Rules[1] = FixedRule
    /\ scState.Rules[2].Query.Conditions = <<StringValue(CondTeam), StringValue(CondMalformed)>>
    /\ scRet = [s |-> NilScorecard, err |-> SyntaxError]

(* C7: for a non-empty wire properties mapping, refreshEntityState records *)
(* each number in NumberProps, each string in StringProps and each boolean *)
(* in BooleanProps under its own name with the same value, and each object *)
(* in ObjectProps as its JSON text ({"k":1} for the object with k = 1).    *)
C7_ScalarsRecorded ==
    (Returned /\ HasProperties) =>
        \A k \in DOMAIN wire.Properties :
            LET v == wire.Properties[k]
                P == state.Properties
            IN  /\ v.t = "float64" => (k \in DOMAIN P.NumberProps /\ P.NumberProps[k] = v.n)
                /\ v.t = "string" => (k \in DOMAIN P.StringProps /\ P.StringProps[k] = v.s)
                /\ v.t = "bool" => (k \in DOMAIN P.BooleanProps /\ P.BooleanProps[k] = v.b)
                /\ v.t = "map" => (k \in DOMAIN P.ObjectProps /\ P.ObjectProps[k] = Marshal(v))
                /\ v = Obj(<<<<"k", 1>>>>) => P.ObjectProps[k] = "{\"k\":1}"

C7_Witness ==
    /\ Returned
    /\ wire.Properties = ScenarioProps
    /\ state.Properties.StringProps = ("env" :> "prod")
    /\ state.Properties.NumberProps = ("replicas" :> 3)
    /\ state.Properties.BooleanProps = ("public" :> TRUE)

C10_OneCardinality ==
    (Returned /\ HasRelations) =>
        /\ DOMAIN state.Relations.SingleRelation \cap DOMAIN state.Relations.ManyRelations = {}
        /\ \A k \in DOMAIN wire.Relations :
              LET r == wire.Relations[k]
              IN  /\ (r.t = "string" /\ r.s # "") =>
                        (/\ k \in DOMAIN state.Relations.SingleRelation
                         /\ k \notin DOMAIN state.Relations.ManyRelations)
                  /\ (r.t # "string" /\ Len(r.l) # 0) =>
                        (/\ k \in DOMAIN state.Relations.ManyRelations
                         /\ k \notin DOMAIN state.Relations.SingleRelation)

---------------------------------------------------------------------------
\* the relation's wire value is an empty string or an empty list
EmptyRelation(r) ==
    \/ r.t = "string" /\ r.s = ""
    \/ r.t \in {"[]string", "[]interface{}"} /\ Len(r.l) = 0

\* rel has no entry named k, and no entry with an empty value
Suppressed(rel, k) ==
    /\ k \notin DOMAIN rel.SingleRelation
    /\ k \notin DOMAIN rel.ManyRelations
    /\ \A j \in DOMAIN rel.SingleRelation : rel.SingleRelation[j] # ""
    /\ \A j \in DOMAIN rel.ManyRelations : Len(rel.ManyRelations[j]) # 0

(* C11: after refreshEntityState, a relation whose wire value is an empty  *)
(* list or an empty string is in neither SingleRelation nor ManyRelations, *)
(* and neither container has an entry with an empty value.  This is so of  *)
(* the relation container of the state and of the RelationModel that       *)
(* refreshRelationsEntityState builds.                                     *)
C11_EmptySuppressed ==
    (Returned /\ HasRelations) =>
        \A k \in DOMAIN wire.Relations :
            EmptyRelation(wire.Relations[k]) =>
                Suppressed(state.Relations, k) /\ Suppressed(relations, k)

\* an empty string relation beside a non-empty one that the function keeps
C11_Witness ==
    /\ Returned
    /\ DOMAIN wire.Relations = {"owner", "depends_on"}
    /\ wire.Relations["owner"] = RelStr("")
    /\ wire.Relations["depends_on"] = RelStr("svc-2")
    /\ ~relations.nil
    /\ DOMAIN relations.SingleRelation = {"depends_on"}

---------------------------------------------------------------------------
\* the property names of the wire entities of the model
PropertyNames == {"tags", "labels", "env", "replicas", "public"}

\* k has no value in the wire properties mapping: it is null or not there
NullOrAbsent(k) ==
    k \notin DOMAIN wire.Properties \/ wire.Properties[k].t = "nil"

(* C12: after refreshEntityState, a property whose wire value is null, or  *)
(* that the wire properties mapping does not have, is held by no property  *)
(* container of the state; and a call on an entity with no list-valued     *)
(* property, null-valued ones included, returns nil.                       *)
C12_NullOrAbsentOmitted ==
    /\ Returned => \A k \in PropertyNames : NullOrAbsent(k) => Holding(k) = {}
    /\ (ret # "none" /\ \A k \in DOMAIN wire.Properties : ~IsList(k)) => Returned

---------------------------------------------------------------------------
\* k is a list with declared items.type string, number or boolean and an
\* element of another runtime type
Mismatch(k) ==
    /\ IsList(k)
    /\ ItemsType(bp, k) \in {"string", "number", "boolean"}
    /\ \E i \in DOMAIN wire.Properties[k].l :
           wire.Properties[k].l[i].t # AssertedType(ItemsType(bp, k))

(* C13: when a list-valued property has declared items.type string,       *)
(* number or boolean and the runtime type of an element does not match,    *)
(* refreshEntityState returns to its caller with an error: it does not     *)
(* return nil, and it does not end in a run-time panic that no caller is   *)
(* handed as an error value.                                               *)
C13_MismatchIsError ==
    (ret \in {"nil", "panic", "error"} /\ \E k \in DOMAIN wire.Properties : Mismatch(k)) =>
        ret = "error"

---------------------------------------------------------------------------
\* an operation of the client has been called
Called == cliCall.op # "none"

TransportFailed == cliCall.x.transport # "nil"

(* C14: when the HTTP round trip of ReadEntity, CreateEntity or            *)
(* DeleteEntity fails, the operation returns that transport error          *)
(* unchanged and no Entity, whatever the response carries: the envelope    *)
(* is not looked at.                                                       *)
C14_TransportErrorUnchanged ==
    (Called /\ TransportFailed) =>
        /\ cliRet.err = cliCall.x.transport
        /\ cliRet.entity = NoEntity

\* the round trip fails with a response whose envelope says ok
C14_Witness ==
    /\ cliCall.op = "DeleteEntity"
    /\ cliCall.x.transport = DeadlineExceeded
    /\ cliCall.x.body = BodyOkEntity
    /\ cliRet.err = DeadlineExceeded

\* the errors json.Unmarshal reports for the bodies that are not JSON
DecodingErrors ==
    {"unexpected end of JSON input",
     "invalid character '<' looking for beginning of value"}

NotJson == cliCall.x.body \in {BodyHtml, BodyEmpty}

(* C15: when the body ReadEntity receives is not valid JSON, ReadEntity    *)
(* returns the JSON decoding error and no Entity; it does not return the   *)
(* "failed to read entity" error of a false ok flag, and no field of the   *)
(* configuration state is populated.                                       *)
C15_ReadDecodingError ==
    (cliCall.op = "ReadEntity" /\ ~TransportFailed /\ NotJson) =>
        /\ cliRet.err \in DecodingErrors
        /\ cliRet.entity = NoEntity
        /\ state = FreshState

C15_Witness ==
    /\ cliCall.op = "ReadEntity"
    /\ cliCall.x.transport = "nil"
    /\ cliCall.x.status = 500
    /\ cliCall.x.body = BodyHtml
    /\ cliRet.err = "invalid character '<' looking for beginning of value"

(* C16: ReadEntity returns a non-nil PortError, apart from its error       *)
(* value, in every outcome: transport failure, decoding failure, ok=false  *)
(* and success.                                                            *)
C16_ErrorDetailAlways ==
    cliCall.op = "ReadEntity" => cliRet.pe = "non-nil"

\* the success outcome: a nil error, an Entity and a PortError
C16_Witness ==
    /\ cliCall.op = "ReadEntity"
    /\ cliCall.x.body = BodyOkEntity
    /\ cliRet.err = "nil"
    /\ ~cliRet.entity.nil
    /\ cliRet.pe = "non-nil"

\* the envelope of the response says ok
EnvelopeOk == cliCall.x.body \in {BodyOkEntity, BodyOkBare}

(* C17: each call of ReadEntity, CreateEntity or DeleteEntity sends one    *)
(* HTTP request, whether it ends in success, a transport error or          *)
(* ok=false: nothing is sent again; and a failed round trip or a response  *)
(* that is not ok always gives the caller a non-nil error.                 *)
C17_OneRequest ==
    Called =>
        /\ cliRet.requests = 1
        /\ (TransportFailed \/ ~EnvelopeOk) => cliRet.err # "nil"

C17_Witness ==
    /\ cliCall.op = "CreateEntity"
    /\ cliCall.x.transport = Refused
    /\ cliRet.requests = 1
    /\ cliRet.err = Refused

---------------------------------------------------------------------------
\* the string forms of the two timestamps of the wire entities
StringOfTime1 == "2023-01-02 03:04:05 +0000 UTC"
StringOfTime2 == "2024-11-30 12:00:59 +0000 UTC"

StringForm(t) == IF t = Time1 THEN StringOfTime1 ELSE StringOfTime2

(* C19: after refreshEntityState, state.ID and state.Identifier are the    *)
(* wire identifier, state.Title the wire title, state.Blueprint the        *)
(* identifier of the blueprint, state.CreatedBy and state.UpdatedBy the    *)
(* wire values, and state.CreatedAt and state.UpdatedAt the string forms   *)
(* ("2006-01-02 15:04:05 +0000 UTC") of the wire timestamps.               *)
C19_ScalarFieldsCopied ==
    Returned =>
        /\ state.ID = wire.Identifier
        /\ state.Identifier = wire.Identifier
        /\ state.Title = wire.Title
        /\ state.Blueprint = bp.Identifier
        /\ state.CreatedBy = wire.CreatedBy
        /\ state.UpdatedBy = wire.UpdatedBy
        /\ state.CreatedAt = StringForm(wire.CreatedAt)
        /\ state.UpdatedAt = StringForm(wire.UpdatedAt)

\* svc-2, created by alice and updated later by bob
C19_Witness ==
    /\ Returned
    /\ wire.Identifier = "svc-2"
    /\ state.ID = "svc-2"
    /\ state.Blueprint = "microservice"
    /\ state.UpdatedBy = "bob"
    /\ state.CreatedAt = StringOfTime1
    /\ state.UpdatedAt = StringOfTime2

(* C20: when the wire team list is non-empty, after refreshEntityState     *)
(* state.Teams has the length of the wire list and the same team names in  *)
(* the same order.                                                         *)
C20_TeamsCopied ==
    (Returned /\ Len(wire.Team) # 0) =>
        /\ Len(state.Teams) = Len(wire.Team)
        /\ \A i \in 1..Len(wire.Team) : state.Teams[i] = wire.Team[i]

\* two teams, in wire order
C20_Witness ==
    /\ Returned
    /\ wire.Team = <<"t1", "t2">>
    /\ state.Teams = <<"t1", "t2">>

---------------------------------------------------------------------------
\* the translation has returned a Scorecard and a nil error
Translated == scRet.err = "nil"

(* C21: on success scorecardResourceToPortBody copies identifier and       *)
(* title as they are and returns one rule per configured rule, in the      *)
(* order of the configuration, each with that rule's level, identifier,    *)
(* title and query combinator.                                             *)
C21_RulesCopied ==
    Translated =>
        /\ ~scRet.s.nil
        /\ scRet.s.Identifier = scState.Identifier
        /\ scRet.s.Title = scState.Title
        /\ Len(scRet.s.Rules) = Len(scState.Rules)
        /\ \A i \in DOMAIN scState.Rules :
              /\ scRet.s.Rules[i].Level = scState.Rules[i].Level
              /\ scRet.s.Rules[i].Identifier = scState.Rules[i].Identifier
              /\ scRet.s.Rules[i].Title = scState.Rules[i].Title
              /\ scRet.s.Rules[i].Query.Combinator = scState.Rules[i].Query.Combinator

\* two different rules, translated in order
C21_Witness ==
    /\ Translated
    /\ Len(scState.Rules) = 2
    /\ scState.Rules[1].Identifier = "has-team"
    /\ scState.Rules[2].Identifier = "uses-go"
    /\ scRet.s.Rules[1].Level = "Gold"
    /\ scRet.s.Rules[2].Level = "Silver"
    /\ scRet.s.Rules[1].Query.Combinator = "and"

\* the structured value a condition string is the JSON text of
Decoded(c) ==
    CASE c.s = CondTeam ->
           [nil |-> FALSE,
            fields |-> <<<<"operator", "isNotEmpty">>, <<"property", "$team">>>>]
      [] c.s = CondLang ->
           [nil |-> FALSE,
            fields |-> <<<<"operator", "=">>, <<"property", "lang">>, <<"value", "Go">>>>]
      [] OTHER -> [nil |-> TRUE, fields |-> <<>>]

NonNull(conds) == SelectSeq(conds, LAMBDA c : ~c.null)

(* C22: on success, the query conditions of every returned rule are the    *)
(* decoded structured values of that rule's non-null condition strings,    *)
(* in order: as many as there are non-null conditions, none for a null     *)
(* condition, and each a decoded value, not the string.                    *)
C22_ConditionsDecoded ==
    Translated =>
        \A i \in DOMAIN scState.Rules :
            LET given == NonNull(scState.Rules[i].Query.Conditions)
                sent == scRet.s.Rules[i].Query.Conditions
            IN  /\ Len(sent) = Len(given)
                /\ \A j \in DOMAIN given : sent[j] = Decoded(given[j])

\* a null condition between two objects: two conditions go out, in order
C22_Witness ==
    /\ Translated
    /\ Len(scState.Rules) = 2
    /\ scState.Rules[1].Query.Conditions = <<StringNull, StringValue(CondTeam)>>
    /\ Len(scRet.s.Rules[1].Query.Conditions) = 1
    /\ scRet.s.Rules[1].Query.Conditions[1].fields[1] = <<"operator", "isNotEmpty">>
    /\ Len(scRet.s.Rules[2].Query.Conditions) = 1

(* C23: scorecardResourceToPortBody does nothing but build its result: on  *)
(* the success path and on the error path the step that returns leaves     *)
(* the configuration model as it was and sends no request.                 *)
C23_NoSideEffect ==
    [][scRet' # scRet => (scState' = scState /\ cliRet' = cliRet /\ cliCall' = cliCall
                          /\ state' = state)]_vars

\* the error path: an error returned, the model as given, nothing sent
C23_Witness ==
    /\ scRet.err = SyntaxError
    /\ Len(scState.Rules) = 2
    /\ cliRet.requests = 0

\* c is the JSON text of a value that is not an object
NotAnObject(c) ==
    ~c.null /\ c.s \in {CondArray, CondNumber, CondText, CondBool, CondNullText}

(* C30: when a non-null condition string is valid JSON but not the text    *)
(* of a JSON object (an array, a number, a string, a boolean or null),     *)
(* scorecardResourceToPortBody returns an error and no Scorecard.          *)
C30_OnlyObjectsAccepted ==
    (scRet # NotCalled /\ \E i \in DOMAIN scState.Rules :
                             \E j \in DOMAIN scState.Rules[i].Query.Conditions :
                                 NotAnObject(scState.Rules[i].Query.Conditions[j])) =>
        /\ scRet.err # "nil"
        /\ scRet.s = NilScorecard

---------------------------------------------------------------------------
\* k is a non-empty list whose items.type the blueprint declares
DeclaredList(k) ==
    /\ IsList(k)
    /\ Len(wire.Properties[k].l) # 0
    /\ ItemMapOf(ItemsType(bp, k)) # "none"

\* the items map of k's declared type has k's own list
OwnEntry(k) ==
    LET m == state.Properties.ArrayProps[ItemMapOf(ItemsType(bp, k))].elems
    IN  k \in DOMAIN m /\ m[k] = Recorded(k, ItemsType(bp, k))

(* C24: when a wire entity has two list-valued properties with the same    *)
(* declared items.type, after refreshEntityState the items map of that     *)
(* type has an entry for each of the two names with its own list: the      *)
(* later one does not remove the earlier.  Stated for non-empty lists.     *)
C24_SameTypeArraysKept ==
    Returned =>
        \A k, j \in DOMAIN wire.Properties :
            (k # j /\ DeclaredList(k) /\ DeclaredList(j)
                   /\ ItemsType(bp, k) = ItemsType(bp, j)) =>
                OwnEntry(k) /\ OwnEntry(j)

(* C25: refreshEntityState is deterministic: for the wire entity and the   *)
(* blueprint of the call, visiting the entries of the wire properties      *)
(* mapping in any order returns nil with the property containers the       *)
(* state has.                                                              *)
C25_OrderIndependent ==
    (Returned /\ HasProperties) =>
        \A order \in Orders(DOMAIN wire.Properties) :
            LET r == refreshEntityState(FreshState, wire, bp, order)
            IN  r.ret = "nil" /\ r.state.Properties = state.Properties

\* k is a list for which the blueprint declares none of the four types
UndeclaredList(k) == IsList(k) /\ ItemMapOf(ItemsType(bp, k)) = "none"

(* C26: a list-valued property for which the blueprint declares no         *)
(* items.type among string, number, boolean and object (also a property    *)
(* the schema does not have) is in none of the four items maps and in no   *)
(* other container; a call whose lists are all of this kind returns nil;   *)
(* and the other property of the entity keeps its one entry, a declared    *)
(* list its own list, whichever of the two is visited first.               *)
C26_UndeclaredListSkipped ==
    /\ Returned =>
          \A k \in DOMAIN wire.Properties :
              UndeclaredList(k) =>
                  /\ Holding(k) = {}
                  /\ \A j \in DOMAIN wire.Properties \ {k} :
                        HasContainer(j) =>
                            /\ Cardinality(Holding(j)) = 1
                            /\ IsList(j) => OwnEntry(j)
    /\ (ret \in {"nil", "panic"}
        /\ \A k \in DOMAIN wire.Properties : IsList(k) => UndeclaredList(k)) => Returned

\* tags has no schema entry, labels is a declared list of strings
C26_Witness ==
    /\ Returned
    /\ DOMAIN wire.Properties = {"tags", "labels"}
    /\ wire.Properties["tags"] = List(<<Str("a"), Str("b")>>)
    /\ "tags" \notin DOMAIN bp.Schema.Properties
    /\ ItemsType(bp, "labels") = "string"
    /\ Holding("tags") = {}
    /\ state.Properties.ArrayProps.StringItems.elems = ("labels" :> <<"x">>)

(* C27: a list-valued property of length zero whose items.type the         *)
(* blueprint declares (string, number, boolean or object) is recorded      *)
(* under its own name, as an empty list, in the items map of that type.    *)
C27_EmptyListRecorded ==
    Returned =>
        \A k \in DOMAIN wire.Properties :
            (IsList(k) /\ Len(wire.Properties[k].l) = 0
                       /\ ItemMapOf(ItemsType(bp, k)) # "none") =>
                LET m == state.Properties.ArrayProps[ItemMapOf(ItemsType(bp, k))].elems
                IN  k \in DOMAIN m /\ m[k] = <<>>

---------------------------------------------------------------------------
(* C28: for ReadEntity and CreateEntity, in every outcome the returned     *)
(* Entity is non-nil exactly when the returned error is nil: no Entity     *)
(* comes with an error, and no nil Entity with a nil error.                *)
C28_EntityIffNoError ==
    cliCall.op \in {"ReadEntity", "CreateEntity"} =>
        (~cliRet.entity.nil <=> cliRet.err = "nil")

\* an ok envelope without an entity: the Entity returned is the zero
\* Entity of the envelope, not nil
C28_Witness ==
    /\ cliCall.op = "CreateEntity"
    /\ cliCall.x.body = BodyOkBare
    /\ cliRet.err = "nil"
    /\ ~cliRet.entity.nil
    /\ cliRet.entity.Identifier = ""

====
